---- MODULE Spec2Model ----
(***************************************************************************)
(* Model of src/app.py: the comment-processing pipeline, its file-backed   *)
(* store and the HTTP handlers that drive them.                            *)
(*                                                                         *)
(* Strings are sequences of tokens.  A token is either a whitespace token  *)
(* (" " or "\n") or a chunk of text without leading or trailing            *)
(* whitespace; literal parts of prompt templates and of error messages are *)
(* single tokens.  An optional JSON field is a sequence of length 0        *)
(* (absent / null) or 1 (present, holding the string).                     *)
(*                                                                         *)
(* The file is read and written as a whole by load_store and save_store;   *)
(* every handler thread of the ThreadingHTTPServer runs between those      *)
(* calls concurrently with the others.  The created_at timestamps are not  *)
(* modelled: no handler reads them.                                        *)
(***************************************************************************)
EXTENDS Integers, Sequences, FiniteSets, TLC

\* ------------------------------------------------------------------ bounds
NumHandlers == 2
MaxComments == 2

Handlers == 1..NumHandlers

\* --------------------------------------------------------------- constants
DefaultToneRules == <<"Use professional and consistent tone with strong readability.">>
NoCommentsSummary == <<"No consolidated comments available yet.">>
NoCommentsAnswer == <<"No consolidated comments available for analysis yet.">>
EmptyQuestionAnswer == <<"Please insert a question.">>
TextRequired == <<"Comment text is required.">>
KeyRequired == <<"OpenAI API key is required in configuration.">>
RulesRequired == <<"Please set 'Improvements rules' in configuration before requesting suggestions.">>
SummaryFailedPrefix == "Comment saved, but summary update failed: "

\* ----------------------------------------------------------------- strings
IsSpace(t) == t \in {" ", "\n"}

RECURSIVE LStrip(_)
LStrip(s) == IF s # <<>> /\ IsSpace(Head(s)) THEN LStrip(Tail(s)) ELSE s

RECURSIVE RStrip(_)
RStrip(s) ==
    IF s # <<>> /\ IsSpace(s[Len(s)]) THEN RStrip(SubSeq(s, 1, Len(s) - 1)) ELSE s

\* str.strip()
Strip(s) == RStrip(LStrip(s))

\* mutant: the field is taken as sent, without .strip()
GetStripped_unstripped(opt) == IF opt = <<>> THEN <<>> ELSE opt[1]

\* (body.get(field) or "").strip()
GetStripped(opt) == IF opt = <<>> THEN <<>> ELSE Strip(opt[1])

\* ------------------------------------------------------------------- store
empty_store ==
    [comments |-> <<>>, consolidated_comments |-> <<>>, executive_summaries |-> <<>>]

Comment(id, text) == [id |-> id, text |-> text]

ConsolidatedComment(comment_id, consolidated_text) ==
    [comment_id |-> comment_id, consolidated_text |-> consolidated_text]

\* mutant: the context holds the newest row only
Context_newest_only(rows) ==
    IF rows = <<>> THEN <<>> ELSE <<"- ">> \o rows[Len(rows)].consolidated_text

\* "\n".join(f"- {row['consolidated_text']}" for row in comments)
RECURSIVE Context(_)
Context(rows) ==
    IF rows = <<>> THEN <<>>
    ELSE IF Len(rows) = 1 THEN <<"- ">> \o rows[1].consolidated_text
    ELSE <<"- ">> \o rows[1].consolidated_text \o <<"\n">> \o Context(Tail(rows))

\* ---------------------------------------------------------------- upstream
\* What the OpenAI endpoint may do with one request: answer with a text, or
\* make call_openai raise RuntimeError (lines 82-86, or 90-91).
TextContents == {<<" ">>, <<"x", "\n">>}
ReviewContents == {<<"{full}">>, <<"{partial}">>, <<"[array]">>, <<"not json">>}
UpstreamFailures == {"OpenAI request failed", "Unexpected OpenAI response"}

Answered(content) == [ok |-> TRUE, content |-> content, exc |-> <<>>]
Failed(message) == [ok |-> FALSE, content |-> <<>>, exc |-> <<message>>]

TextUpstreams ==
    {Answered(c) : c \in TextContents} \cup {Failed(m) : m \in UpstreamFailures}
ReviewUpstreams ==
    {Answered(c) : c \in ReviewContents} \cup {Failed(m) : m \in UpstreamFailures}

\* what the endpoint does when requests overlap: one text, one failure
OverlapTextUpstreams == {Answered(<<"x", "\n">>), Failed("OpenAI request failed")}
OverlapReviewUpstreams == {Answered(<<"{full}">>), Failed("OpenAI request failed")}

\* mutant: a failed request yields an empty text instead of raising
call_openai_swallowing(up) ==
    [ok |-> TRUE, value |-> IF up.ok THEN Strip(up.content) ELSE <<>>, exc |-> <<>>]

\* call_openai: the stripped content, or the RuntimeError it raises
call_openai(up) ==
    IF up.ok THEN [ok |-> TRUE, value |-> Strip(up.content), exc |-> <<>>]
    ELSE [ok |-> FALSE, value |-> <<>>, exc |-> up.exc]

Call(stage, system_prompt, user_prompt) ==
    [stage |-> stage, system_prompt |-> system_prompt, user_prompt |-> user_prompt]

improve_prompt(comment_text, improvement_rules) ==
    Strip(<<"\n", "Rules for quality/completeness:\n">> \o improvement_rules
          \o <<"\n\nController comment:\n">> \o comment_text
          \o <<"\n\nReturn ONLY valid JSON with this exact schema: {...}", "\n">>)

translate_prompt(text) == <<"Translate to English:\n">> \o text

consolidate_prompt(text, tone_rules) ==
    Strip(<<"\n", "Tone/style rules:\n">> \o tone_rules
          \o <<"\n\nComment to consolidate:\n">> \o text
          \o <<"\n\nReturn only the final consolidated comment.", "\n">>)

summary_prompt(comments) ==
    <<"Create one concise executive summary in English based on all consolidated comments below.\n",
      "Focus on themes, key risks/opportunities, and suggested direction.\n\n",
      "Consolidated comments:\n">> \o Context(comments)

answer_prompt(question, consolidated_comments) ==
    <<"Question:\n">> \o question \o <<"\n\n", "Consolidated comments context:\n">>
    \o Context(consolidated_comments) \o <<"\n\n", "Provide a concise analysis in English.">>

\* json.loads(raw) in improve_comment_with_openai, and the fallback on
\* JSONDecodeError.  kind is the Python type of what the function returns.
improve_result(raw) ==
    IF raw = <<"{full}">> THEN
        [kind |-> "dict",
         fields |-> {"quality_assessment", "suggestions", "revised_comment", "missing_information"},
         revised_comment |-> <<"revised">>]
    ELSE IF raw = <<"{partial}">> THEN
        [kind |-> "dict", fields |-> {"quality_assessment"}, revised_comment |-> <<>>]
    ELSE IF raw = <<"[array]">> THEN
        [kind |-> "list", fields |-> {}, revised_comment |-> <<>>]
    ELSE
        [kind |-> "dict",
         fields |-> {"quality_assessment", "suggestions", "revised_comment", "missing_information"},
         revised_comment |-> raw]

\* --------------------------------------------------------------- responses
NoResponse == [status |-> 0, kind |-> "none", error |-> <<>>, fields |-> {}, data |-> <<>>]
OkResponse == [status |-> 200, kind |-> "ok", error |-> <<>>, fields |-> {"status"}, data |-> <<>>]
ErrorResponse(status, message) ==
    [status |-> status, kind |-> "error", error |-> message, fields |-> {"error"}, data |-> <<>>]
\* {"requires_review": True, **result}; a result that is no dict raises
\* TypeError, which nothing catches: the thread dies and no response is sent
ReviewResponse(result) ==
    IF result.kind = "dict" THEN
        [status |-> 200, kind |-> "review", error |-> <<>>,
         fields |-> {"requires_review"} \cup result.fields, data |-> <<result.revised_comment>>]
    ELSE
        [status |-> 0, kind |-> "crash", error |-> <<"TypeError">>, fields |-> {}, data |-> <<>>]
AnswerResponse(answer) ==
    [status |-> 200, kind |-> "answer", error |-> <<>>, fields |-> {"answer"}, data |-> <<answer>>]
StateResponse(store) ==
    [status |-> 200, kind |-> "state", error |-> <<>>,
     fields |-> {"comments", "consolidated_comments", "executive_summaries"},
     data |-> <<store>>]

\* ------------------------------------------------------------ request bodies
Flags == BOOLEAN
CommentBodies ==
    [text : {<<>>, << <<" ">> >>, << <<"a", " ">> >>},
     api_key : {<<>>, << <<"k">> >>},
     suggest_improvements : Flags,
     normalize_english : Flags,
     reviewed : Flags,
     tone_rules : {<<>>, << <<"t">> >>},
     improvement_rules : {<< <<" ">> >>, << <<"r">> >>},
     question : {<<>>}]
\* the bodies sent when requests overlap: every branch of the handler, fewer
\* values of the fields that only reach the prompts
OverlapBodies ==
    {b \in CommentBodies :
        /\ b.api_key # <<>>
        /\ b.text # <<>>
        /\ ~b.reviewed
        /\ b.tone_rules = <<>>
        /\ b.improvement_rules = << <<"r">> >>}
AskBodies ==
    [text : {<<>>},
     api_key : {<<>>, << <<"k">> >>},
     suggest_improvements : {FALSE},
     normalize_english : {FALSE},
     reviewed : {FALSE},
     tone_rules : {<<>>},
     improvement_rules : {<<>>},
     question : {<<>>, << <<"q">> >>}]
\* {}
NoBody ==
    [text |-> <<>>, api_key |-> <<>>, suggest_improvements |-> FALSE,
     normalize_english |-> FALSE, reviewed |-> FALSE, tone_rules |-> <<>>,
     improvement_rules |-> <<>>, question |-> <<>>]

\* ------------------------------------------------------------------- state
VARIABLES
    file,       \* contents of data/comments_store.json
    pc,         \* where each handler thread is
    req,        \* the request each handler serves: its body and what lines 527-533, 596-597 parse
    local,      \* each handler's working variables: final_text, consolidated, store
    calls,      \* the calls each handler has made to call_openai for its request
    sent,       \* the exchange completed by the last step: request, calls, response
    overtaken   \* history: the handlers whose load_store() (line 571) came before a
                \* POST /api/reset that has responded since, and that have yet to finish

vars == <<file, pc, req, local, calls, sent, overtaken>>

NoRequest ==
    [path |-> "", body |-> NoBody, text |-> <<>>, api_key |-> <<>>, suggest_improvements |-> FALSE,
     normalize_english |-> FALSE, reviewed |-> FALSE, tone_rules |-> <<>>,
     improvement_rules |-> <<>>, question |-> <<>>]

NoLocals == [final_text |-> <<>>, consolidated |-> <<>>, store |-> empty_store]

NoExchange == [handler |-> 0, req |-> NoRequest, calls |-> <<>>, response |-> NoResponse]

\* run(): ensure_store() leaves the empty store when the file is absent
Init ==
    /\ file = empty_store
    /\ pc = [p \in Handlers |-> "idle"]
    /\ req = [p \in Handlers |-> NoRequest]
    /\ local = [p \in Handlers |-> NoLocals]
    /\ calls = [p \in Handlers |-> <<>>]
    /\ sent = NoExchange
    /\ overtaken = {}

load_store == file

\* The model stops accepting comments when a store could grow past MaxComments:
\* every handler that has yet to load adds one row to the longest store there is.
Pending == {q \in Handlers : pc[q] \in {"translate", "consolidate", "load"}}
Holding == {q \in Handlers : pc[q] \in {"summarize", "save"}}
Longest ==
    CHOOSE n \in 0..MaxComments + NumHandlers :
        /\ n >= Len(file.comments)
        /\ \A q \in Holding : n >= Len(local[q].store.comments)
        /\ \/ n = Len(file.comments)
           \/ \E q \in Holding : n = Len(local[q].store.comments)
Room == Longest + Cardinality(Pending) < MaxComments

\* the response is sent and do_GET / do_POST returns: the thread and its
\* variables are gone
Respond(p, r, c, resp) ==
    /\ sent' = [handler |-> p, req |-> r, calls |-> c, response |-> resp]
    /\ pc' = [pc EXCEPT ![p] = "idle"]
    /\ req' = [req EXCEPT ![p] = NoRequest]
    /\ local' = [local EXCEPT ![p] = NoLocals]
    /\ calls' = [calls EXCEPT ![p] = <<>>]

\* the handler goes on to the statement at label
Goto(p, label, r, l, c) ==
    /\ sent' = NoExchange
    /\ pc' = [pc EXCEPT ![p] = label]
    /\ req' = [req EXCEPT ![p] = r]
    /\ local' = [local EXCEPT ![p] = l]
    /\ calls' = [calls EXCEPT ![p] = c]

\* ------------------------------------------------------------------ do_GET
GetState(p) ==
    /\ pc[p] = "idle"
    /\ Respond(p, [NoRequest EXCEPT !.path = "/api/state"], <<>>, StateResponse(load_store))
    /\ UNCHANGED <<file, overtaken>>

\* mutant: reset empties the two logs of rows and keeps the summary
Reset_keeping_summary(p) ==
    /\ pc[p] = "idle"
    /\ file' = [file EXCEPT !.comments = <<>>, !.consolidated_comments = <<>>]
    /\ Respond(p, [NoRequest EXCEPT !.path = "/api/reset"], <<>>, OkResponse)
    /\ overtaken' = Holding

\* ----------------------------------------------------------------- do_POST
Reset(p) ==
    /\ pc[p] = "idle"
    /\ file' = empty_store
    /\ Respond(p, [NoRequest EXCEPT !.path = "/api/reset"], <<>>, OkResponse)
    /\ overtaken' = Holding

ParseComment(body) ==
    [NoRequest EXCEPT
        !.path = "/api/comment",
        !.body = body,
        !.text = GetStripped(body.text),
        !.api_key = GetStripped(body.api_key),
        !.suggest_improvements = body.suggest_improvements,
        !.normalize_english = body.normalize_english,
        !.reviewed = body.reviewed,
        !.tone_rules = GetStripped(body.tone_rules),
        !.improvement_rules = GetStripped(body.improvement_rules)]

\* What one stretch of do_POST does: where the handler is next ("respond" when
\* it has sent its response), its working variables, the calls made so far, the
\* response, and whether save_store(store) ran.
Continue(label, l, c) ==
    [label |-> label, local |-> l, calls |-> c, response |-> NoResponse, write |-> FALSE]
Reply(c, resp) ==
    [label |-> "respond", local |-> NoLocals, calls |-> c, response |-> resp, write |-> FALSE]

\* mutant: the review is skipped when a translation is asked for
NeedsReview_unless_normalizing(r) ==
    r.suggest_improvements /\ ~r.reviewed /\ ~r.normalize_english

\* mutant: the gate ignores reviewed
NeedsReview_ignoring_reviewed(r) == r.suggest_improvements

\* line 542
NeedsReview(r) == r.suggest_improvements /\ ~r.reviewed

\* mutant: the commit never runs Translate
comment_entry_skipping_translate(r) ==
    IF r.text = <<>> THEN Reply(<<>>, ErrorResponse(400, TextRequired))
    ELSE IF r.api_key = <<>> THEN Reply(<<>>, ErrorResponse(400, KeyRequired))
    ELSE IF NeedsReview(r) THEN
        IF r.improvement_rules = <<>> THEN Reply(<<>>, ErrorResponse(400, RulesRequired))
        ELSE Continue("review", NoLocals, <<>>)
    ELSE Continue("consolidate", [NoLocals EXCEPT !.final_text = r.text], <<>>)

\* lines 535-548 and 557-559: validate, choose the branch
comment_entry(r) ==
    IF r.text = <<>> THEN Reply(<<>>, ErrorResponse(400, TextRequired))
    ELSE IF r.api_key = <<>> THEN Reply(<<>>, ErrorResponse(400, KeyRequired))
    ELSE IF NeedsReview(r) THEN
        IF r.improvement_rules = <<>> THEN Reply(<<>>, ErrorResponse(400, RulesRequired))
        ELSE Continue("review", NoLocals, <<>>)
    ELSE Continue(IF r.normalize_english THEN "translate" ELSE "consolidate",
                  [NoLocals EXCEPT !.final_text = r.text], <<>>)

\* lines 549-555
review_step(r, l, c, up) ==
    LET res == call_openai(up)
        cc == Append(c, Call("review", "coach", improve_prompt(r.text, r.improvement_rules)))
    IN  IF res.ok THEN Reply(cc, ReviewResponse(improve_result(res.value)))
        ELSE Reply(cc, ErrorResponse(502, res.exc))

\* lines 559-560, 567-569
translate_step(r, l, c, up) ==
    LET res == call_openai(up)
        cc == Append(c, Call("translate", "translator", translate_prompt(l.final_text)))
    IN  IF res.ok THEN Continue("consolidate", [l EXCEPT !.final_text = res.value], cc)
        ELSE Reply(cc, ErrorResponse(502, res.exc))

\* mutant: blank tone rules are passed on as they are
ToneRules_passing_blank(tone_rules) == tone_rules

\* line 565
ToneRules(tone_rules) == IF tone_rules # <<>> THEN tone_rules ELSE DefaultToneRules

\* lines 562-569
consolidate_step(r, l, c, up) ==
    LET res == call_openai(up)
        cc == Append(c, Call("consolidate", "standardizer",
                             consolidate_prompt(l.final_text, ToneRules(r.tone_rules))))
    IN  IF res.ok THEN Continue("load", [l EXCEPT !.consolidated = res.value], cc)
        ELSE Reply(cc, ErrorResponse(502, res.exc))

\* mutant: the ConsolidatedComment takes the number of comments before the append
AppendRows_stale_id(store, final_text, consolidated) ==
    LET comment_id == Len(store.comments) + 1 IN
    [store EXCEPT
        !.comments = Append(@, Comment(comment_id, final_text)),
        !.consolidated_comments =
            Append(@, ConsolidatedComment(Len(store.comments), consolidated))]

\* mutant: every row gets the id 1
AppendRows_first_id(store, final_text, consolidated) ==
    [store EXCEPT
        !.comments = Append(@, Comment(1, final_text)),
        !.consolidated_comments = Append(@, ConsolidatedComment(1, consolidated))]

\* lines 572-582: append the Comment and its ConsolidatedComment
AppendRows(store, final_text, consolidated) ==
    LET comment_id == Len(store.comments) + 1 IN
    [store EXCEPT
        !.comments = Append(@, Comment(comment_id, final_text)),
        !.consolidated_comments = Append(@, ConsolidatedComment(comment_id, consolidated))]

\* mutant: the store is saved right after the append, and again at the end
load_step_saving(r, l, c, loaded) ==
    [label |-> "summarize",
     local |-> [l EXCEPT !.store = AppendRows(loaded, l.final_text, l.consolidated)],
     calls |-> c, response |-> NoResponse, write |-> TRUE]

\* lines 571-582; loaded is what load_store() returns
load_step(r, l, c, loaded) ==
    Continue("summarize", [l EXCEPT !.store = AppendRows(loaded, l.final_text, l.consolidated)], c)

\* mutant: the summary is appended to the ones there
SetSummary_appending(store, summary_text) ==
    [store EXCEPT !.executive_summaries = Append(@, [summary_text |-> summary_text])]

\* line 160
SetSummary(store, summary_text) ==
    [store EXCEPT !.executive_summaries = << [summary_text |-> summary_text] >>]

\* mutant: the summary failure is reported as any other
SummaryFailedMessage_plain(exc) == exc

\* line 587
SummaryFailedMessage(exc) == <<SummaryFailedPrefix>> \o exc

\* lines 584-588 with update_executive_summary_with_openai
summarize_step(r, l, c, up) ==
    LET comments == l.store.consolidated_comments
        res == call_openai(up)
        cc == Append(c, Call("summarize", "summarizer", summary_prompt(comments)))
    IN  IF comments = <<>>
        THEN Continue("save", [l EXCEPT !.store = SetSummary(@, NoCommentsSummary)], c)
        ELSE IF res.ok
        THEN Continue("save", [l EXCEPT !.store = SetSummary(@, res.value)], cc)
        ELSE Reply(cc, ErrorResponse(502, SummaryFailedMessage(res.exc)))

\* lines 590-592
save_step(r, l, c) ==
    [label |-> "respond", local |-> l, calls |-> c, response |-> OkResponse, write |-> TRUE]

\* the handler thread p takes the stretch whose result is o
Apply(p, r, o) ==
    /\ file' = IF o.write THEN o.local.store ELSE file
    /\ IF o.label = "respond" THEN Respond(p, r, o.calls, o.response)
       ELSE Goto(p, o.label, r, o.local, o.calls)
    /\ overtaken' = IF o.label = "respond" THEN overtaken \ {p} ELSE overtaken

CommentRequest(p, body) ==
    /\ pc[p] = "idle"
    /\ Room
    /\ Apply(p, ParseComment(body), comment_entry(ParseComment(body)))

ReviewCall(p, up) ==
    /\ pc[p] = "review"
    /\ Apply(p, req[p], review_step(req[p], local[p], calls[p], up))

TranslateCall(p, up) ==
    /\ pc[p] = "translate"
    /\ Apply(p, req[p], translate_step(req[p], local[p], calls[p], up))

ConsolidateCall(p, up) ==
    /\ pc[p] = "consolidate"
    /\ Apply(p, req[p], consolidate_step(req[p], local[p], calls[p], up))

LoadAppend(p) ==
    /\ pc[p] = "load"
    /\ Apply(p, req[p], load_step(req[p], local[p], calls[p], load_store))

SummarizeCall(p, up) ==
    /\ pc[p] = "summarize"
    /\ Apply(p, req[p], summarize_step(req[p], local[p], calls[p], up))

SaveStore(p) ==
    /\ pc[p] = "save"
    /\ Apply(p, req[p], save_step(req[p], local[p], calls[p]))

\* POST /api/comment served with no other request running: the stretches one
\* after the other, ups[stage] being what the endpoint does with that stage's call
stage_step(label, r, l, c, store, ups) ==
    CASE label = "review" -> review_step(r, l, c, ups["review"])
      [] label = "translate" -> translate_step(r, l, c, ups["translate"])
      [] label = "consolidate" -> consolidate_step(r, l, c, ups["consolidate"])
      [] label = "load" -> load_step(r, l, c, store)
      [] label = "summarize" -> summarize_step(r, l, c, ups["summarize"])
      [] label = "save" -> save_step(r, l, c)

RECURSIVE run_from(_, _, _, _)
run_from(o, r, store, ups) ==
    IF o.label = "respond"
    THEN [calls |-> o.calls, response |-> o.response,
          store |-> IF o.write THEN o.local.store ELSE store]
    ELSE run_from(stage_step(o.label, r, o.local, o.calls, store, ups), r, store, ups)

post_comment(r, store, ups) == run_from(comment_entry(r), r, store, ups)

ParseAsk(body) ==
    [NoRequest EXCEPT
        !.path = "/api/ask",
        !.body = body,
        !.question = GetStripped(body.question),
        !.api_key = GetStripped(body.api_key)]

\* mutant: the sentinel of line 165 is never returned, the endpoint is always asked
ask_entry_always_calling(r, store) ==
    IF r.question = <<>> THEN Reply(<<>>, AnswerResponse(EmptyQuestionAnswer))
    ELSE IF r.api_key = <<>> THEN Reply(<<>>, ErrorResponse(400, KeyRequired))
    ELSE Continue("answer", [NoLocals EXCEPT !.store = store], <<>>)

\* mutant: the api_key is checked only when the endpoint is about to be called
ask_entry_late_key_check(r, store) ==
    IF r.question = <<>> THEN Reply(<<>>, AnswerResponse(EmptyQuestionAnswer))
    ELSE IF store.consolidated_comments = <<>>
    THEN Reply(<<>>, AnswerResponse(NoCommentsAnswer))
    ELSE IF r.api_key = <<>> THEN Reply(<<>>, ErrorResponse(400, KeyRequired))
    ELSE Continue("answer", [NoLocals EXCEPT !.store = store], <<>>)

\* lines 598-604 and the empty case of answer_question_with_openai (164-165);
\* store is what load_store() returns
ask_entry(r, store) ==
    IF r.question = <<>> THEN Reply(<<>>, AnswerResponse(EmptyQuestionAnswer))
    ELSE IF r.api_key = <<>> THEN Reply(<<>>, ErrorResponse(400, KeyRequired))
    ELSE IF store.consolidated_comments = <<>>
    THEN Reply(<<>>, AnswerResponse(NoCommentsAnswer))
    ELSE Continue("answer", [NoLocals EXCEPT !.store = store], <<>>)

\* lines 594-604
AskRequest(p, body) ==
    /\ pc[p] = "idle"
    /\ Apply(p, ParseAsk(body), ask_entry(ParseAsk(body), load_store))

\* mutant: the handler writes its copy of the store back after answering
AnswerCall_saving(p, up) ==
    LET r == call_openai(up)
        c == Append(calls[p],
                Call("answer", "analyst",
                     answer_prompt(req[p].question, local[p].store.consolidated_comments)))
    IN
    /\ pc[p] = "answer"
    /\ IF r.ok THEN Respond(p, req[p], c, AnswerResponse(r.value))
       ELSE Respond(p, req[p], c, ErrorResponse(502, r.exc))
    /\ file' = local[p].store
    /\ UNCHANGED overtaken

\* lines 605-611
AnswerCall(p, up) ==
    LET r == call_openai(up)
        c == Append(calls[p],
                Call("answer", "analyst",
                     answer_prompt(req[p].question, local[p].store.consolidated_comments)))
    IN
    /\ pc[p] = "answer"
    /\ IF r.ok THEN Respond(p, req[p], c, AnswerResponse(r.value))
       ELSE Respond(p, req[p], c, ErrorResponse(502, r.exc))
    /\ UNCHANGED <<file, overtaken>>

Step(p, bodies, texts, reviews) ==
    \/ GetState(p)
    \/ Reset(p)
    \/ \E body \in bodies : CommentRequest(p, body)
    \/ \E up \in reviews : ReviewCall(p, up)
    \/ \E up \in texts : TranslateCall(p, up)
    \/ \E up \in texts : ConsolidateCall(p, up)
    \/ LoadAppend(p)
    \/ \E up \in texts : SummarizeCall(p, up)
    \/ SaveStore(p)
    \/ \E body \in AskBodies : AskRequest(p, body)
    \/ \E up \in texts : AnswerCall(p, up)

\* one request at a time
SeqNext == Step(1, CommentBodies, TextUpstreams, ReviewUpstreams)

\* ThreadingHTTPServer: one thread per request, all running concurrently
Next == \E p \in Handlers : Step(p, OverlapBodies, OverlapTextUpstreams, OverlapReviewUpstreams)

SeqSpec == Init /\ [][SeqNext]_vars

Spec == Init /\ [][Next]_vars

\* ------------------------------------------------------------------ claims
IsComment(e) == e.req.path = "/api/comment"
Committed(e) == IsComment(e) /\ e.response.kind = "ok"
StageOfLast(c) == IF c = <<>> THEN "" ELSE c[Len(c)].stage
AllIdle == \A q \in Handlers : pc[q] = "idle"

\* C1: when the Summarize call of a commit fails, the persisted store holds one
\* more Comment and one more ConsolidatedComment than before the request.
C1_SummaryFailurePersistsRows ==
    [][\A p \in Handlers, up \in TextUpstreams :
        (~up.ok /\ SummarizeCall(p, up)) =>
            /\ Len(file'.comments) = Len(file.comments) + 1
            /\ Len(file'.consolidated_comments) = Len(file.comments) + 1]_vars

\* C2: in every state of the persisted store, comments and consolidated_comments
\* have the same length and the i-th ConsolidatedComment refers to the i-th
\* Comment's id, whatever requests overlap.
C2_RowsPaired ==
    /\ Len(file.comments) = Len(file.consolidated_comments)
    /\ \A i \in 1..Len(file.comments) :
            file.consolidated_comments[i].comment_id = file.comments[i].id

C2_Witness ==
    /\ Committed(sent)
    /\ Len(file.comments) = 2
    /\ \E q \in Handlers : pc[q] # "idle"

\* C3: a valid request with suggest_improvements and not reviewed never changes
\* the store, calls only the review stage, and ends with a review payload or an
\* error (a response the handler sends, or the exception it dies of), never ok.
C3_ReviewNeverCommits ==
    [][\A p \in Handlers :
        LET ended == sent'.handler = p
            r == IF ended THEN sent'.req ELSE req'[p]
            c == IF ended THEN sent'.calls ELSE calls'[p]
        IN  (/\ pc[p] # pc'[p] \/ ended
             /\ r.path = "/api/comment"
             /\ r.text # <<>> /\ r.api_key # <<>>
             /\ r.suggest_improvements /\ ~r.reviewed) =>
                /\ file' = file
                /\ \A i \in 1..Len(c) : c[i].stage = "review"
                /\ Len(c) <= 1
                /\ IF ended THEN sent'.response.kind \in {"review", "error", "crash"}
                   ELSE pc'[p] = "review"]_vars

C3_Witness ==
    /\ IsComment(sent)
    /\ sent.response.kind = "review"
    /\ sent.req.normalize_english
    /\ sent.req.tone_rules # <<>>
    /\ StageOfLast(sent.calls) = "review"
    /\ file.comments # <<>>

\* C4: when the Translate or the Consolidate call fails, the request ends there
\* with 502, having made no later call, and no stretch of it has written the store.
C4_EarlyFailureAborts ==
    [][\A p \in Handlers :
        /\ \A up \in TextUpstreams :
            (~up.ok /\ (TranslateCall(p, up) \/ ConsolidateCall(p, up))) =>
                /\ sent'.handler = p
                /\ sent'.response.status = 502
                /\ sent'.response.kind = "error"
                /\ Len(sent'.calls) = Len(calls[p]) + 1
                /\ StageOfLast(sent'.calls) = pc[p]
                /\ pc'[p] = "idle"
                /\ file' = file
        /\ (pc'[p] \in {"translate", "consolidate"}) => file' = file]_vars

C4_Witness ==
    /\ IsComment(sent)
    /\ sent.response.status = 502
    /\ Len(sent.calls) = 2
    /\ StageOfLast(sent.calls) = "consolidate"
    /\ file.comments # <<>>

\* C5: a comment request with blank text, with no api_key, or asking for a
\* review with blank improvement_rules gets 400, makes no call to the endpoint
\* and leaves the store as it was.
Blank(opt) == opt = <<>> \/ \A i \in 1..Len(opt[1]) : IsSpace(opt[1][i])
Rejected(body) ==
    \/ Blank(body.text)
    \/ Blank(body.api_key)
    \/ body.suggest_improvements /\ ~body.reviewed /\ Blank(body.improvement_rules)

C5_InvalidRejected ==
    [][\A p \in Handlers :
        LET ended == sent'.handler = p
            r == IF ended THEN sent'.req ELSE req'[p]
        IN  (/\ pc[p] # pc'[p] \/ ended
             /\ pc[p] = "idle"
             /\ r.path = "/api/comment"
             /\ Rejected(r.body)) =>
                /\ ended
                /\ sent'.response.status = 400
                /\ sent'.response.kind = "error"
                /\ sent'.calls = <<>>
                /\ file' = file]_vars

C5_Witness ==
    /\ IsComment(sent)
    /\ sent.response.status = 400
    /\ sent.response.error = RulesRequired
    /\ ~Blank(sent.req.body.text)
    /\ file.comments # <<>>

\* C6: when only the Summarize call fails, the store's executive_summaries are
\* what they were before the request, and the 502 carries a message that no
\* failure of Translate or Consolidate produces.
C6_SummaryFailureKeepsSummary ==
    [][\A p \in Handlers :
        /\ \A up \in TextUpstreams :
            (~up.ok /\ SummarizeCall(p, up)) =>
                /\ file'.executive_summaries = file.executive_summaries
                /\ sent'.handler = p
                /\ sent'.response.status = 502
                /\ sent'.response.error # up.exc
                /\ \A m \in UpstreamFailures : sent'.response.error # <<m>>
        /\ (pc'[p] \in {"translate", "consolidate", "load", "summarize"}) =>
                file'.executive_summaries = file.executive_summaries]_vars

C6_Witness ==
    /\ IsComment(sent)
    /\ sent.response.status = 502
    /\ StageOfLast(sent.calls) = "summarize"
    /\ file.executive_summaries # <<>>

\* C7: with reviewed set, a comment request with suggest_improvements does what
\* the same request without it does, for every store the file may hold, every
\* other field and every behaviour of the endpoint: same calls, same response,
\* same resulting store; and it never runs the review stage.
Oracles ==
    [review : {Answered(<<"{full}">>), Failed("OpenAI request failed")},
     translate : TextUpstreams, consolidate : TextUpstreams, summarize : TextUpstreams]

C7_ReviewedCommitsDirectly ==
    /\ sent.req.path = "/api/state" =>
        \A body \in CommentBodies, ups \in Oracles :
            (body.suggest_improvements /\ body.reviewed) =>
                post_comment(ParseComment(body), file, ups)
                    = post_comment(ParseComment([body EXCEPT !.suggest_improvements = FALSE]),
                                   file, ups)
    /\ (IsComment(sent) /\ sent.req.suggest_improvements /\ sent.req.reviewed) =>
        /\ sent.response.kind # "review"
        /\ \A i \in 1..Len(sent.calls) : sent.calls[i].stage # "review"

C7_Witness ==
    /\ Committed(sent)
    /\ sent.req.suggest_improvements
    /\ sent.req.reviewed
    /\ Len(file.comments) = 2

\* C8: the store never holds more than one executive summary; the summary a
\* commit saves is the text its Summarize call returned, alone.
C8_OneSummary ==
    /\ [](Len(file.executive_summaries) <= 1)
    /\ [][\A p \in Handlers :
            /\ \A up \in TextUpstreams :
                (up.ok /\ SummarizeCall(p, up)) =>
                    local'[p].store.executive_summaries
                        = << [summary_text |-> call_openai(up).value] >>
            /\ SaveStore(p) =>
                /\ Committed(sent')
                /\ file'.executive_summaries = local[p].store.executive_summaries
                /\ Len(file'.executive_summaries) = 1
                /\ Len(file'.comments) = Len(file.comments) + 1]_vars

C8_Witness ==
    /\ Committed(sent)
    /\ Len(file.comments) = 2
    /\ Len(file.executive_summaries) = 1

RECURSIVE BulletedLines(_, _)
BulletedLines(rows, n) ==
    IF n = 0 THEN <<>>
    ELSE IF n = 1 THEN <<"- ">> \o rows[1].consolidated_text
    ELSE BulletedLines(rows, n - 1) \o <<"\n", "- ">> \o rows[n].consolidated_text

C10_SummaryContext ==
    [][\A p \in Handlers, up \in TextUpstreams :
        SummarizeCall(p, up) =>
            LET c == IF sent'.handler = p THEN sent'.calls ELSE calls'[p]
                prompt == c[Len(c)].user_prompt
                rows == local[p].store.consolidated_comments
                n == Len(rows)
            IN  /\ Len(c) = Len(calls[p]) + 1
                /\ c[Len(c)].stage = "summarize"
                /\ n = Len(file.consolidated_comments) + 1
                /\ \A i \in 1..(n - 1) : rows[i] = file.consolidated_comments[i]
                /\ rows[n].consolidated_text = local[p].consolidated
                /\ SubSeq(prompt, 4, Len(prompt)) = BulletedLines(rows, n)]_vars

C10_Witness ==
    /\ Committed(sent)
    /\ StageOfLast(sent.calls) = "summarize"
    /\ Len(file.consolidated_comments) = 2
    /\ file.consolidated_comments[1].consolidated_text
            # file.consolidated_comments[2].consolidated_text

\* C11: a review request never fails because of the shape of the text the
\* endpoint returned: whenever the review call succeeds the response is the
\* review payload with requires_review and the four fields of the schema, and
\* the request fails (502) only when the call itself fails.
ReviewPayloadFields ==
    {"requires_review", "quality_assessment", "suggestions", "revised_comment",
     "missing_information"}

C11_ReviewShapeNeverFails ==
    [][\A p \in Handlers, up \in ReviewUpstreams :
        ReviewCall(p, up) =>
            /\ sent'.handler = p
            /\ IF up.ok
               THEN /\ sent'.response.status = 200
                    /\ sent'.response.kind = "review"
                    /\ sent'.response.fields = ReviewPayloadFields
               ELSE /\ sent'.response.status = 502
                    /\ sent'.response.kind = "error"]_vars

IsAsk(e) == e.req.path = "/api/ask"

\* C12: POST /api/ask with a question and an api_key, served while the store
\* holds no consolidated comment, answers the fixed "nothing to analyze" text
\* and calls the endpoint zero times.
C12_AskEmptyStoreSentinel ==
    [][\A p \in Handlers, body \in AskBodies :
        (/\ ~Blank(body.question)
         /\ ~Blank(body.api_key)
         /\ file.consolidated_comments = <<>>
         /\ AskRequest(p, body)) =>
            /\ sent'.handler = p
            /\ sent'.response.status = 200
            /\ sent'.response.kind = "answer"
            /\ sent'.response.data = <<NoCommentsAnswer>>
            /\ sent'.calls = <<>>
            /\ pc'[p] = "idle"]_vars

C12_Witness ==
    /\ IsAsk(sent)
    /\ sent.req.question # <<>>
    /\ sent.req.api_key # <<>>
    /\ sent.response.data = <<NoCommentsAnswer>>
    /\ sent.calls = <<>>
    /\ file.consolidated_comments = <<>>

\* C13: no step of a POST /api/ask request, whatever its inputs and outcome,
\* changes comments, consolidated_comments or executive_summaries of the
\* persisted store.
C13_AskReadOnly ==
    [][\A p \in Handlers :
        (\/ \E body \in AskBodies : AskRequest(p, body)
         \/ \E up \in TextUpstreams : AnswerCall(p, up)) =>
            /\ file'.comments = file.comments
            /\ file'.consolidated_comments = file.consolidated_comments
            /\ file'.executive_summaries = file.executive_summaries]_vars

C13_Witness ==
    /\ IsAsk(sent)
    /\ StageOfLast(sent.calls) = "answer"
    /\ sent.response.kind = "answer"
    /\ \E q \in Handlers : pc[q] = "answer" /\ local[q].store # file

\* C14 as claimed: POST /api/ask responds 400 whenever api_key is missing, for
\* every question (an empty one included), and calls nothing.
C14_MissingKeyAlways400 ==
    [][\A p \in Handlers, body \in AskBodies :
        (Blank(body.api_key) /\ AskRequest(p, body)) =>
            /\ sent'.handler = p
            /\ sent'.response.status = 400
            /\ sent'.calls = <<>>]_vars

\* C14 as amended: POST /api/ask responds 400 whenever api_key is missing and
\* the question is not blank, and calls nothing; with a blank question it
\* answers 200 "Please insert a question.", api_key or not, and calls nothing.
C14_MissingKeyRejected ==
    [][\A p \in Handlers, body \in AskBodies :
        AskRequest(p, body) =>
            /\ (Blank(body.api_key) /\ ~Blank(body.question)) =>
                    /\ sent'.handler = p
                    /\ sent'.response.status = 400
                    /\ sent'.response.error = KeyRequired
                    /\ sent'.calls = <<>>
            /\ Blank(body.question) =>
                    /\ sent'.handler = p
                    /\ sent'.response.status = 200
                    /\ sent'.response.data = <<EmptyQuestionAnswer>>
                    /\ sent'.calls = <<>>]_vars

C14_Witness ==
    /\ IsAsk(sent)
    /\ sent.response.status = 400
    /\ sent.req.question # <<>>
    /\ sent.req.api_key = <<>>
    /\ file.consolidated_comments = <<>>

\* What the Consolidate stage is to receive for a request, given the default
\* instruction: the template of consolidate_comment_with_openai around the
\* tone rules and the working text.
StagesCalled(c) == [i \in 1..Len(c) |-> c[i].stage]
ExpectedTone(body, default) ==
    IF Blank(body.tone_rules) THEN default ELSE Strip(body.tone_rules[1])
ExpectedConsolidatePrompt(tone, text) ==
    <<"Tone/style rules:\n">> \o tone \o <<"\n\nComment to consolidate:\n">> \o text
    \o <<"\n\nReturn only the final consolidated comment.">>
ConsolidateReceives(default) ==
    \A p \in Handlers :
        /\ (\E up \in TextUpstreams : ConsolidateCall(p, up)) =>
            LET c == IF sent'.handler = p THEN sent'.calls ELSE calls'[p]
                tone == ExpectedTone(req[p].body, default)
            IN  /\ Len(c) = Len(calls[p]) + 1
                /\ c[Len(c)].stage = "consolidate"
                /\ tone # <<>>
                /\ c[Len(c)].user_prompt = ExpectedConsolidatePrompt(tone, local[p].final_text)
        /\ (sent'.handler = p /\ Committed(sent')) =>
            Cardinality({i \in 1..Len(sent'.calls) : sent'.calls[i].stage = "consolidate"}) = 1

\* C15 as claimed: every commit runs the Consolidate stage, which receives
\* "use professional and consistent tone" when tone_rules is blank, never an
\* empty string, and the tone_rules text when it is not blank.
ClaimedDefaultTone == <<"use professional and consistent tone">>
C15_ClaimedDefaultTone == [][ConsolidateReceives(ClaimedDefaultTone)]_vars

\* C15 as amended: the same, the fixed default instruction being "Use
\* professional and consistent tone with strong readability."
C15_DefaultTone ==
    [][ConsolidateReceives(
        <<"Use professional and consistent tone with strong readability.">>)]_vars

C15_Witness ==
    /\ Committed(sent)
    /\ Blank(sent.req.body.tone_rules)
    /\ sent.req.normalize_english
    /\ StagesCalled(sent.calls) = <<"translate", "consolidate", "summarize">>
    /\ Len(file.comments) = 2
    /\ sent.calls[2].user_prompt[2] = DefaultToneRules[1]

\* C16: every Comment of the persisted store has a non-empty text, whatever the
\* Translate stage returned (an empty string included).
C16_CommentTextNonEmpty ==
    \A i \in 1..Len(file.comments) : file.comments[i].text # <<>>

\* C17: the Comment a commit appends holds the text the user submitted with
\* that request (as trimmed at line 527), whether or not Translate ran.
C17_CommentHoldsSubmittedText ==
    [][\A p \in Handlers :
        SaveStore(p) =>
            /\ file'.comments # <<>>
            /\ file'.comments[Len(file'.comments)].text = GetStripped(req[p].body.text)]_vars

\* C18: in every state of the persisted store the Comment ids are positive,
\* pairwise distinct and strictly increasing in sequence order, whatever
\* commits and resets interleave.
C18_IdsIncrease ==
    /\ \A i \in 1..Len(file.comments) : file.comments[i].id \in Nat \ {0}
    /\ \A i, j \in 1..Len(file.comments) :
            /\ i # j => file.comments[i].id # file.comments[j].id
            /\ i < j => file.comments[i].id < file.comments[j].id

C18_Witness ==
    /\ Committed(sent)
    /\ Len(file.comments) = 2
    /\ \E q \in Handlers :
            /\ pc[q] = "save"
            /\ q \in overtaken
            /\ Len(local[q].store.comments) = 1

\* C19: no update is lost: a commit that saves, no reset having responded since
\* it loaded the store, leaves in the store every pair persisted by then plus
\* its own, so that the number of comments counts the commits that responded
\* ok since the last reset.
C19_NoLostUpdate ==
    [][\A p \in Handlers :
        (SaveStore(p) /\ p \notin overtaken) =>
            /\ Len(file'.comments) = Len(file.comments) + 1
            /\ Len(file'.consolidated_comments) = Len(file.consolidated_comments) + 1
            /\ \A i \in 1..Len(file.comments) :
                    /\ file'.comments[i] = file.comments[i]
                    /\ file'.consolidated_comments[i] = file.consolidated_comments[i]]_vars

\* C20: once POST /api/reset has responded, the store never again holds a
\* Comment or ConsolidatedComment persisted before it: a commit that loaded the
\* store before the reset and saves after it persists its own pair only.
C20_ResetIsFinal ==
    [][\A p \in Handlers :
        (SaveStore(p) /\ p \in overtaken) =>
            /\ Len(file'.comments) <= 1
            /\ Len(file'.consolidated_comments) <= 1]_vars

\* C21: within one commit the calls are made in the order Translate (only when
\* normalize_english is set), Consolidate, Summarize, each at most once; the
\* pair is appended to the store copy between Consolidate and Summarize and the
\* store is persisted last; after a failed call the request makes no other call.
IsPrefix(s, t) == Len(s) <= Len(t) /\ s = SubSeq(t, 1, Len(s))
CommitStages(r) ==
    IF r.normalize_english THEN <<"translate", "consolidate", "summarize">>
    ELSE <<"consolidate", "summarize">>
CallingStages == {"translate", "consolidate", "summarize"}

C21_StageOrder ==
    [][\A p \in Handlers :
        LET ended == sent'.handler = p
            r == IF ended THEN sent'.req ELSE req'[p]
            c == IF ended THEN sent'.calls ELSE calls'[p]
        IN  (/\ pc[p] # pc'[p] \/ ended
             /\ r.path = "/api/comment"
             /\ StagesCalled(c) # <<"review">>) =>
                /\ IsPrefix(StagesCalled(c), CommitStages(r))
                /\ pc[p] \in CallingStages =>
                        /\ Len(c) = Len(calls[p]) + 1
                        /\ c[Len(c)].stage = pc[p]
                        /\ (\A up \in TextUpstreams :
                                (\/ TranslateCall(p, up)
                                 \/ ConsolidateCall(p, up)
                                 \/ SummarizeCall(p, up)) => ~up.ok) =>
                               ended /\ sent'.response.status = 502
                /\ pc[p] \notin CallingStages => c = calls[p]
                /\ pc[p] = "load" =>
                        /\ local'[p].store.comments
                                = Append(file.comments, Comment(Len(file.comments) + 1,
                                                                local[p].final_text))
                        /\ StagesCalled(c) = SubSeq(CommitStages(r), 1, Len(CommitStages(r)) - 1)
                        /\ pc'[p] = "summarize"
                /\ (~ended /\ pc[p] # "load") =>
                        local'[p].store.comments = local[p].store.comments
                /\ file' # file <=> /\ pc[p] = "save"
                                    /\ StagesCalled(c) = CommitStages(r)
                                    /\ Committed(sent')
                /\ (ended /\ Committed(sent')) => pc[p] = "save"]_vars

C21_Witness ==
    /\ Committed(sent)
    /\ StagesCalled(sent.calls) = <<"translate", "consolidate", "summarize">>
    /\ sent.req.tone_rules # <<>>
    /\ Len(file.comments) = 1

\* C22: each POST /api/comment writes the persisted store at most once, in the
\* step that ends it, having changed only its in-memory copy before; so no
\* GET /api/state and no other request ever sees a persisted store holding a
\* new Comment without its ConsolidatedComment.
Paired(store) ==
    /\ Len(store.comments) = Len(store.consolidated_comments)
    /\ \A i \in 1..Len(store.comments) :
            store.consolidated_comments[i].comment_id = store.comments[i].id

C22_SingleWriteLast ==
    /\ [](/\ Paired(file)
          /\ sent.response.kind = "state" => Paired(sent.response.data[1])
          /\ \A q \in Handlers : Paired(local[q].store))
    /\ [][\A p \in Handlers :
            LET ended == sent'.handler = p
                r == IF ended THEN sent'.req ELSE req'[p]
            IN  (/\ pc[p] # pc'[p] \/ ended
                 /\ r.path = "/api/comment") =>
                    /\ file' # file => /\ pc[p] = "save"
                                       /\ ended
                                       /\ Committed(sent')
                                       /\ file' = local[p].store
                    /\ pc[p] = "save" => ended /\ file' = local[p].store
                    /\ pc[p] = "load" => /\ local'[p].store # local[p].store
                                         /\ file' = file]_vars

C22_Witness ==
    /\ sent.req.path = "/api/state"
    /\ Len(sent.response.data[1].comments) = 1
    /\ \E q \in Handlers :
            /\ pc[q] \in {"summarize", "save"}
            /\ Len(local[q].store.comments) = 2

====
